---- MODULE Spec2Model ----
(***************************************************************************)
(* Model of smac/epm/gaussian_process.py: the GaussianProcess surrogate.   *)
(* One instance is modelled: its fields, the position of the running      *)
(* call, the evaluation of _nll in progress and the value a _predict /     *)
(* sample_functions call hands back.                                       *)
(*                                                                         *)
(* Numbers.  Hyperparameters and their bounds are fixed point with two     *)
(* decimals (100 is 1.0).  Variances are counted in units of 1e-10.        *)
(* Likelihoods and gradients are IEEE doubles: [k, m, e] with k one of     *)
(* "fin", "inf", "ninf", "nan" and, for "fin", the value m * 10^e.         *)
(***************************************************************************)
EXTENDS Integers, Sequences, FiniteSets, TLC

\* ------------------------------------------------------------------ bounds
\* Largest number of test points handed to _predict / sample_functions.
MaxN == 2
\* Largest n_funcs handed to sample_functions.
MaxFuncs == 2

\* --------------------------------------------------------------- constants
\* smac.utils.constants.VERY_SMALL_NUMBER (1e-10), in units of 1e-10.
VERY_SMALL_NUMBER == 1

\* ------------------------------------------------------------- IEEE doubles
Fin(v)  == [k |-> "fin", m |-> v, e |-> 0]
PosInf  == [k |-> "inf", m |-> 0, e |-> 0]
NegInf  == [k |-> "ninf", m |-> 0, e |-> 0]
NaN     == [k |-> "nan", m |-> 0, e |-> 0]
\* The literal 1e25 of _nll.
Penalty == [k |-> "fin", m |-> 1, e |-> 25]

\* np.isfinite
IsFinite(a) == a.k = "fin"

\* float addition (lml += ..., grad += ...)
FAdd(a, b) ==
    IF a.k = "nan" \/ b.k = "nan" THEN NaN
    ELSE IF a.k = "fin" /\ b.k = "fin"
         THEN IF a.e >= b.e
              THEN [k |-> "fin", m |-> a.m * 10^(a.e - b.e) + b.m, e |-> b.e]
              ELSE [k |-> "fin", m |-> a.m + b.m * 10^(b.e - a.e), e |-> a.e]
    ELSE IF a.k = "fin" THEN b
    ELSE IF b.k = "fin" THEN a
    ELSE IF a.k = b.k THEN a
    ELSE NaN

\* unary minus on a float
FNeg(a) ==
    CASE a.k = "fin"  -> [k |-> "fin", m |-> 0 - a.m, e |-> a.e]
      [] a.k = "inf"  -> NegInf
      [] a.k = "ninf" -> PosInf
      [] OTHER        -> NaN

\* ------------------------------------------------------------------- _nll
NoPrior == [present |-> FALSE]

\* _nll mutated: the sign flip of the finite branch is lost.
Nll_NoNegation(theta, lml0, grad0, prior) ==
    LET lml  == IF prior.present THEN FAdd(lml0, prior.lnprob) ELSE lml0
        grad == IF prior.present
                THEN [i \in DOMAIN grad0 |-> FAdd(grad0[i], prior.gradient[i])]
                ELSE grad0
    IN  IF ~IsFinite(lml) \/ ~(\A i \in DOMAIN grad : IsFinite(grad[i]))
        THEN [val |-> Penalty, grad |-> [i \in 1..Len(theta) |-> Penalty]]
        ELSE [val |-> lml, grad |-> grad]

\* _nll mutated: only the likelihood is tested for finiteness.
Nll_NoGradGuard(theta, lml0, grad0, prior) ==
    LET lml  == IF prior.present THEN FAdd(lml0, prior.lnprob) ELSE lml0
        grad == IF prior.present
                THEN [i \in DOMAIN grad0 |-> FAdd(grad0[i], prior.gradient[i])]
                ELSE grad0
    IN  IF ~IsFinite(lml)
        THEN [val |-> Penalty, grad |-> [i \in 1..Len(theta) |-> Penalty]]
        ELSE [val |-> FNeg(lml), grad |-> [i \in DOMAIN grad |-> FNeg(grad[i])]]

\* GaussianProcess._nll: lml0, grad0 are what gp.log_marginal_likelihood
\* returned at theta, prior carries prior.lnprob(theta), prior.gradient(theta).
Nll(theta, lml0, grad0, prior) ==
    LET lml  == IF prior.present THEN FAdd(lml0, prior.lnprob) ELSE lml0
        grad == IF prior.present
                THEN [i \in DOMAIN grad0 |-> FAdd(grad0[i], prior.gradient[i])]
                ELSE grad0
    IN  IF ~IsFinite(lml) \/ ~(\A i \in DOMAIN grad : IsFinite(grad[i]))
        THEN [val |-> Penalty, grad |-> [i \in 1..Len(theta) |-> Penalty]]
        ELSE [val |-> FNeg(lml), grad |-> [i \in DOMAIN grad |-> FNeg(grad[i])]]

\* ------------------------------------------------------------ numpy helpers
\* np.exp on the fixed-point grid the kernel bounds are drawn from.
Exp(x) ==
    CASE x = -100 -> 37
      [] x = 0    -> 100
      [] x = 100  -> 272
      [] x = 200  -> 739

\* np.diag of a two-dimensional array: the vector of its diagonal.
NpDiag(a) ==
    [shape |-> <<a.shape[1]>>, data |-> [i \in 1..a.shape[1] |-> a.data[i][i]]]

Max(a, b) == IF a >= b THEN a ELSE b

\* np.clip(var, lo, np.inf): a NEW array, the argument is left as it is.
NpClip(a, lo) ==
    [shape |-> a.shape, data |-> [i \in DOMAIN a.data |-> Max(a.data[i], lo)]]

\* np.squeeze(a, axis=1) on a shape; ValueError unless that axis has size 1.
SqueezeAxis1(shape) ==
    IF Len(shape) >= 2 /\ shape[2] = 1
    THEN [ok |-> TRUE, shape |-> <<shape[1]>> \o SubSeq(shape, 3, Len(shape))]
    ELSE [ok |-> FALSE, shape |-> shape]

\* ------------------------------------------- BaseModel output normalisation
RECURSIVE SumSeq(_)
SumSeq(s) == IF s = << >> THEN 0 ELSE Head(s) + SumSeq(Tail(s))

Isqrt(n) == CHOOSE r \in 0..n : r * r <= n /\ (r + 1) * (r + 1) > n

MeanOf(y) == SumSeq(y) \div Len(y)
StdOf(y)  == Isqrt(SumSeq([i \in DOMAIN y |-> (y[i] - MeanOf(y)) * (y[i] - MeanOf(y))])
                   \div Len(y))

\* _normalize_y: zero mean, unit variance
NormalizeY(y) == [i \in DOMAIN y |-> (y[i] - MeanOf(y)) \div StdOf(y)]

\* _untransform_y on a mean vector / on samples
UntransformMean(mu, mean, std) ==
    [shape |-> mu.shape, data |-> [i \in DOMAIN mu.data |-> mu.data[i] * std + mean]]
\* _untransform_y on a variance vector
UntransformVar(var, std) ==
    [shape |-> var.shape, data |-> [i \in DOMAIN var.data |-> var.data[i] * std * std]]

\* -------------------------------------------------------------------- state
VARIABLES
    kernel,       \* self.kernel, which is also self.gp.kernel: [theta, bounds]
    kernel_init,  \* the kernel as it was handed to __init__
    prior,        \* self.prior is not None
    normalize_y,  \* self.normalize_y
    gp,           \* self.gp
    hypers,       \* self.hypers
    is_trained,   \* self.is_trained
    norm,         \* mean_y_ / std_y_ kept by _normalize_y
    pc,           \* position of the running call, "idle" between calls
    args,         \* arguments and locals of the running / last _train call
    steps,        \* the steps the running / last _train call has performed
    outcome,      \* "none", "running", "ok" or "raised" for the last _train call
    p0,           \* local p0 of _optimize, << >> outside it
    nll,          \* the evaluation of _nll in progress inside the optimizer
    ret,          \* what a _predict / sample_functions call hands to its caller
    last_good     \* the fitted state at the end of the last successful _train

vars == <<kernel, kernel_init, prior, normalize_y, gp, hypers, is_trained, norm,
          pc, args, steps, outcome, p0, nll, ret, last_good>>

\* ----------------------------------------------------------- input domains
\* Kernels a model is constructed with: theta and bounds, both in log space.
Kernels ==
    { [theta |-> <<0>>, bounds |-> << <<-100, 100>> >>],
      [theta |-> <<100, 0>>, bounds |-> << <<0, 200>>, <<-100, 100>> >>] }

\* Training sets (X is named by a number, y is the (N,) target vector).
DataSets == { [X |-> 1, y |-> <<1, 3>>], [X |-> 2, y |-> <<2, 6>>] }

\* Values the optimizer may stop at, per component.
ThetaGrid == {-100, 0, 100, 272}

\* Posterior means, diagonal and off-diagonal covariance entries of the backend.
MuVals   == {2}
DiagVals == {-1, 0, 2}
OffVals  == {1}

\* What log_marginal_likelihood and the prior may evaluate to.
LmlVals     == {Fin(2), NegInf, NaN}
GradVals    == {Fin(-2), PosInf}
LnprobVals  == {Fin(1), NegInf}
PGradVals   == {Fin(4)}

\* ------------------------------------------------------------ null values
NoGP   == [made |-> FALSE]
NoNorm == [set |-> FALSE]
NoArgs == [X |-> 0, raw |-> << >>, y |-> << >>, do_optimize |-> FALSE]
NoNll  == [evaluated |-> FALSE]
NoRet  == [op |-> "none"]
NoGood == [set |-> FALSE]

\* A GaussianProcessRegressor: fresh from the constructor, or after fit().
NewGP == [made |-> TRUE, fitted |-> FALSE, X |-> 0, y |-> << >>, theta |-> << >>]
FittedGP(X, y, theta) ==
    [made |-> TRUE, fitted |-> TRUE, X |-> X, y |-> y, theta |-> theta]
\* fit() that raised in the factorisation: kernel_, X_train_, y_train_ are
\* already stored, the Cholesky factor is not.
HalfFittedGP(X, y, theta) ==
    [made |-> TRUE, fitted |-> FALSE, X |-> X, y |-> y, theta |-> theta]

\* ------------------------------------------------------------------- Init
Init ==
    /\ kernel \in Kernels
    /\ kernel_init = kernel
    /\ prior \in BOOLEAN
    /\ normalize_y \in BOOLEAN
    /\ gp = NoGP
    /\ hypers = << >>
    /\ is_trained = FALSE
    /\ norm = NoNorm
    /\ pc = "idle"
    /\ args = NoArgs
    /\ steps = << >>
    /\ outcome = "none"
    /\ p0 = << >>
    /\ nll = NoNll
    /\ ret = NoRet
    /\ last_good = NoGood

\* ----------------------------------------------------------------- _train
\* Lines 92-102: normalise y, build a new regressor around self.kernel.
TrainBegin ==
    /\ pc = "idle"
    /\ \E d \in DataSets, do_optimize \in BOOLEAN :
          /\ args' = [X |-> d.X, raw |-> d.y,
                      y |-> IF normalize_y THEN NormalizeY(d.y) ELSE d.y,
                      do_optimize |-> do_optimize]
          /\ norm' = IF normalize_y
                     THEN [set |-> TRUE, mean |-> MeanOf(d.y), std |-> StdOf(d.y)]
                     ELSE norm
    /\ gp' = NewGP
    /\ steps' = IF normalize_y THEN <<"normalize">> ELSE << >>
    /\ outcome' = "running"
    /\ pc' = "fit1"
    /\ UNCHANGED <<kernel, kernel_init, prior, normalize_y, hypers, is_trained,
                   p0, nll, ret, last_good>>

\* Line 104 mutated: the trained flag is raised by the first fit.
Fit1_SetsTrained ==
    /\ pc = "fit1"
    /\ gp' = FittedGP(args.X, args.y, kernel.theta)
    /\ steps' = Append(steps, "fit1")
    /\ pc' = IF args.do_optimize THEN "optimize" ELSE "hypers"
    /\ is_trained' = TRUE
    /\ UNCHANGED <<kernel, kernel_init, prior, normalize_y, hypers, norm,
                   args, outcome, p0, nll, ret, last_good>>

\* Line 104: self.gp.fit(X, y) returns.
Fit1 ==
    /\ pc = "fit1"
    /\ gp' = FittedGP(args.X, args.y, kernel.theta)
    /\ steps' = Append(steps, "fit1")
    /\ pc' = IF args.do_optimize THEN "optimize" ELSE "hypers"
    /\ UNCHANGED <<kernel, kernel_init, prior, normalize_y, hypers, is_trained,
                   norm, args, outcome, p0, nll, ret, last_good>>

\* Lines 104 / 112: self.gp.fit(X, y) raises; the exception leaves _train.
FitRaises ==
    /\ pc \in {"fit1", "fit2"}
    /\ gp' = HalfFittedGP(args.X, args.y, kernel.theta)
    /\ outcome' = "raised"
    /\ pc' = "idle"
    /\ UNCHANGED <<kernel, kernel_init, prior, normalize_y, hypers, is_trained,
                   norm, args, steps, p0, nll, ret, last_good>>

\* Lines 158-159: the start point and the box handed to fmin_l_bfgs_b.
OptBounds(k) == [i \in DOMAIN k.bounds |-> <<Exp(k.bounds[i][1]), Exp(k.bounds[i][2])>>]

\* The points of the grid inside a box.
InBox(box) ==
    { t \in [DOMAIN box -> ThetaGrid] :
          \A i \in DOMAIN box : box[i][1] <= t[i] /\ t[i] <= box[i][2] }

\* Lines 107, 158: _optimize is entered, p0 = self.gp.kernel.theta.
OptimizeBegin ==
    /\ pc = "optimize"
    /\ p0' = kernel.theta
    /\ pc' = "lbfgs"
    /\ UNCHANGED <<kernel, kernel_init, prior, normalize_y, gp, hypers,
                   is_trained, norm, args, steps, outcome, nll, ret, last_good>>

\* Line 160: fmin_l_bfgs_b evaluates self._nll at a point of its box.
NllEval ==
    /\ pc = "lbfgs"
    /\ \E theta \in InBox(OptBounds(kernel)),
          lml0 \in LmlVals,
          grad0 \in [1..Len(kernel.theta) -> GradVals],
          lnprob \in LnprobVals,
          pgrad \in [1..Len(kernel.theta) -> PGradVals] :
          LET pr == IF prior
                    THEN [present |-> TRUE, lnprob |-> lnprob, gradient |-> pgrad]
                    ELSE NoPrior
          IN  /\ ~prior => lnprob = Fin(1)
              /\ nll' = [evaluated |-> TRUE, theta |-> theta, lml |-> lml0,
                         grad |-> grad0, prior |-> pr,
                         out |-> Nll(theta, lml0, grad0, pr)]
    /\ pc' = "nll"
    /\ UNCHANGED <<kernel, kernel_init, prior, normalize_y, gp, hypers,
                   is_trained, norm, args, steps, outcome, p0, ret, last_good>>

\* _nll returns its pair to fmin_l_bfgs_b, which goes on.
NllReturn ==
    /\ pc = "nll"
    /\ nll' = NoNll
    /\ pc' = "lbfgs"
    /\ UNCHANGED <<kernel, kernel_init, prior, normalize_y, gp, hypers,
                   is_trained, norm, args, steps, outcome, p0, ret, last_good>>

\* Lines 160-161, 107: fmin_l_bfgs_b stops at a point of its box, which
\* becomes self.hypers.
OptimizeReturn ==
    /\ pc = "lbfgs"
    /\ \E theta \in InBox(OptBounds(kernel)) : hypers' = theta
    /\ steps' = Append(steps, "optimize")
    /\ pc' = "assign"
    /\ p0' = << >>
    /\ UNCHANGED <<kernel, kernel_init, prior, normalize_y, gp, is_trained,
                   norm, args, outcome, nll, ret, last_good>>

\* Line 160: the optimizer (or the objective it calls) raises.
OptimizeRaises ==
    /\ pc = "lbfgs"
    /\ outcome' = "raised"
    /\ pc' = "idle"
    /\ p0' = << >>
    /\ UNCHANGED <<kernel, kernel_init, prior, normalize_y, gp, hypers,
                   is_trained, norm, args, steps, nll, ret, last_good>>

\* Line 109: without optimisation self.hypers = self.gp.kernel.theta.
KeepHypers ==
    /\ pc = "hypers"
    /\ hypers' = kernel.theta
    /\ pc' = "assign"
    /\ UNCHANGED <<kernel, kernel_init, prior, normalize_y, gp, is_trained,
                   norm, args, steps, outcome, p0, nll, ret, last_good>>

\* Line 112 mutated: the second fit is left out.
AssignTheta_SkipsRefit ==
    /\ pc = "assign"
    /\ kernel' = [kernel EXCEPT !.theta = hypers]
    /\ steps' = Append(steps, "assign")
    /\ pc' = "flag"
    /\ UNCHANGED <<kernel_init, prior, normalize_y, gp, hypers, is_trained,
                   norm, args, outcome, p0, nll, ret, last_good>>

\* Line 111: self.gp.kernel.theta = self.hypers (self.gp.kernel is self.kernel).
AssignTheta ==
    /\ pc = "assign"
    /\ kernel' = [kernel EXCEPT !.theta = hypers]
    /\ steps' = Append(steps, "assign")
    /\ pc' = "fit2"
    /\ UNCHANGED <<kernel_init, prior, normalize_y, gp, hypers, is_trained,
                   norm, args, outcome, p0, nll, ret, last_good>>

\* Line 112: the second self.gp.fit(X, y) returns.
Fit2 ==
    /\ pc = "fit2"
    /\ gp' = FittedGP(args.X, args.y, kernel.theta)
    /\ steps' = Append(steps, "fit2")
    /\ pc' = "flag"
    /\ UNCHANGED <<kernel, kernel_init, prior, normalize_y, hypers, is_trained,
                   norm, args, outcome, p0, nll, ret, last_good>>

\* Line 114: self.is_trained = True, and _train returns.
SetTrained ==
    /\ pc = "flag"
    /\ is_trained' = TRUE
    /\ steps' = Append(steps, "trained")
    /\ outcome' = "ok"
    /\ pc' = "idle"
    /\ last_good' = [set |-> TRUE, gp |-> gp, hypers |-> hypers, norm |-> norm]
    /\ UNCHANGED <<kernel, kernel_init, prior, normalize_y, gp, hypers, norm,
                   args, p0, nll, ret>>

\* --------------------------------------------------------------- _predict
\* What self.gp.predict(X_test, return_cov=True) gives for N test points:
\* a mean vector (N,) and a symmetric covariance matrix (N, N).
BackendMu(N, m) == [shape |-> <<N>>, data |-> [i \in 1..N |-> m]]
BackendCov(N, d, o) ==
    [shape |-> <<N, N>>,
     data  |-> [i \in 1..N |-> [j \in 1..N |-> IF i = j THEN d[i] ELSE o]]]

\* GaussianProcess._predict (lines 184-196).
PredictResult(full_cov, mu0, cov0) ==
    IF ~is_trained
    THEN [op |-> "predict", status |-> "not trained", queried |-> FALSE]
    ELSE LET var0    == NpDiag(cov0)
             mu      == IF normalize_y
                        THEN UntransformMean(mu0, norm.mean, norm.std) ELSE mu0
             var     == IF normalize_y
                        THEN UntransformVar(var0, norm.std) ELSE var0
             \* line 194: the clipped copy is computed and dropped
             clipped == NpClip(var, VERY_SMALL_NUMBER)
         IN  [op |-> "predict", status |-> "ok", queried |-> TRUE,
              full_cov |-> full_cov, cov |-> cov0, mu |-> mu, var |-> var]

Predict ==
    /\ pc = "idle"
    /\ \E N \in 1..MaxN, full_cov \in BOOLEAN, m \in MuVals, o \in OffVals :
       \E d \in [1..N -> DiagVals] :
          /\ ret' = PredictResult(full_cov, BackendMu(N, m), BackendCov(N, d, o))
    /\ pc' = "returned"
    /\ UNCHANGED <<kernel, kernel_init, prior, normalize_y, gp, hypers,
                   is_trained, norm, args, steps, outcome, p0, nll, last_good>>

\* ------------------------------------------------------- sample_functions
\* GaussianProcess.sample_functions (lines 216-228), by array shape.
\* gp.sample_y on a regressor fitted to (N,) targets gives (N, n_samples).
SampleResult(N, n_funcs) ==
    IF ~is_trained
    THEN [op |-> "sample", status |-> "not trained", queried |-> FALSE]
    ELSE LET drawn == <<N, n_funcs>>
             sq    == SqueezeAxis1(drawn)
         IN  IF ~sq.ok
             THEN [op |-> "sample", status |-> "ValueError", queried |-> TRUE,
                   N |-> N, n_funcs |-> n_funcs]
             ELSE [op |-> "sample", status |-> "ok", queried |-> TRUE,
                   N |-> N, n_funcs |-> n_funcs,
                   shape |-> IF Len(sq.shape) = 1
                             THEN <<1>> \o sq.shape ELSE sq.shape]

SampleFunctions ==
    /\ pc = "idle"
    /\ \E N \in 1..MaxN, n_funcs \in 1..MaxFuncs : ret' = SampleResult(N, n_funcs)
    /\ pc' = "returned"
    /\ UNCHANGED <<kernel, kernel_init, prior, normalize_y, gp, hypers,
                   is_trained, norm, args, steps, outcome, p0, nll, last_good>>

\* Lines 185 / 196 and 217 / 226-228: the call is over, its result (or its
\* exception) is with the caller.
ResultTaken ==
    /\ pc = "returned"
    /\ ret' = NoRet
    /\ pc' = "idle"
    /\ UNCHANGED <<kernel, kernel_init, prior, normalize_y, gp, hypers,
                   is_trained, norm, args, steps, outcome, p0, nll, last_good>>

\* ------------------------------------------------------------------- Next
Next ==
    \/ TrainBegin
    \/ Fit1
    \/ FitRaises
    \/ OptimizeBegin
    \/ NllEval
    \/ NllReturn
    \/ OptimizeReturn
    \/ OptimizeRaises
    \/ KeepHypers
    \/ AssignTheta
    \/ Fit2
    \/ SetTrained
    \/ Predict
    \/ SampleFunctions
    \/ ResultTaken

Spec == Init /\ [][Next]_vars

\* ----------------------------------------------------------------- claims
IsPrefix(a, b) == Len(a) <= Len(b) /\ a = SubSeq(b, 1, Len(a))

\* C1: on a model whose train has completed, every variance entry that
\* predict returns is at least VERY_SMALL_NUMBER, whatever covariance the
\* backend returned, with or without output normalisation.
C1_VarianceFloor ==
    (last_good.set /\ ret.op = "predict") =>
        /\ ret.status = "ok"
        /\ \A i \in DOMAIN ret.var.data : ret.var.data[i] >= VERY_SMALL_NUMBER

\* C2: a train call that fails after an earlier successful one leaves the
\* backend object, the hyperparameters and the normalisation parameters as
\* the last successful train left them.
C2_FailedRetrainKeepsState ==
    (last_good.set /\ outcome = "raised") =>
        /\ gp = last_good.gp
        /\ hypers = last_good.hypers
        /\ norm = last_good.norm

\* C3: while no train call has completed (also after a first train call that
\* failed part-way), predict and sample_functions fail with the "not trained"
\* error without querying the backend.
C3_UntrainedRejected ==
    (~last_good.set /\ ret.op \in {"predict", "sample"}) =>
        /\ ret.status = "not trained"
        /\ ~ret.queried

\* C3 witness: predict was rejected after a first train call that raised.
C3_Witness ==
    /\ ~last_good.set
    /\ outcome = "raised"
    /\ gp.made
    /\ ret.op = "predict"
    /\ ret.status = "not trained"

\* C4: on a trained model predict returns the N x N covariance matrix (after
\* untransformation) when full_cov is true, and the length-N vector of its
\* diagonal when full_cov is false.
C4_FullCovariance ==
    (ret.op = "predict" /\ ret.status = "ok") =>
        LET N  == ret.cov.shape[1]
            sc == IF normalize_y THEN norm.std * norm.std ELSE 1
        IN  IF ret.full_cov
            THEN /\ ret.var.shape = <<N, N>>
                 /\ \A i, j \in 1..N : ret.var.data[i][j] = ret.cov.data[i][j] * sc
            ELSE /\ ret.var.shape = <<N>>
                 /\ \A i \in 1..N : ret.var.data[i] = ret.cov.data[i][i] * sc

\* C5: on a trained model sample_functions(X_test, n_funcs = k) with N >= 1
\* test points and k >= 1 does not raise and returns a k x N matrix.
C5_SampleShape ==
    (last_good.set /\ ret.op = "sample") =>
        /\ ret.status = "ok"
        /\ ret.shape = <<ret.n_funcs, ret.N>>

\* The sum _nll tests: likelihood plus prior, written on the inputs.
C6_NonFinite(e) ==
    \/ e.lml.k # "fin"
    \/ e.prior.present /\ e.prior.lnprob.k # "fin"
    \/ \E i \in DOMAIN e.grad : e.grad[i].k # "fin"
    \/ e.prior.present /\ \E i \in DOMAIN e.grad : e.prior.gradient[i].k # "fin"

\* C6: when the likelihood plus the optional prior, or a component of the
\* combined gradient, is not finite, _nll returns 1e25 and a gradient of
\* theta's length whose every component is 1e25, and the evaluation changes
\* nothing of the fitted state.
C6_PenaltyOnNonFinite ==
    /\ [](( nll.evaluated /\ C6_NonFinite(nll) ) =>
            /\ nll.out.val = [k |-> "fin", m |-> 1, e |-> 25]
            /\ Len(nll.out.grad) = Len(nll.theta)
            /\ \A i \in 1..Len(nll.theta) :
                  nll.out.grad[i] = [k |-> "fin", m |-> 1, e |-> 25])
    /\ [][ (nll'.evaluated /\ ~nll.evaluated) =>
             UNCHANGED <<kernel, gp, hypers, is_trained, norm>> ]_vars

\* C6 witness: an evaluation with a finite likelihood and an infinite
\* gradient component came back as the penalty.
C6_Witness ==
    /\ nll.evaluated
    /\ nll.lml.k = "fin"
    /\ (nll.prior.present => nll.prior.lnprob.k = "fin")
    /\ \E i \in DOMAIN nll.grad : nll.grad[i].k = "inf"
    /\ Len(nll.theta) = 2
    /\ nll.out.val.e = 25

\* C7: where likelihood, prior and gradients are all finite, _nll returns
\* -(lml + lnprob) and, component by component, -(grad_lml + prior gradient);
\* without a prior it returns -lml and -grad_lml.
C7_NegatedSum ==
    (nll.evaluated /\ ~C6_NonFinite(nll)) =>
        LET pl    == IF nll.prior.present THEN nll.prior.lnprob.m ELSE 0
            pg(i) == IF nll.prior.present THEN nll.prior.gradient[i].m ELSE 0
        IN  /\ nll.out.val = [k |-> "fin", m |-> 0 - (nll.lml.m + pl), e |-> 0]
            /\ DOMAIN nll.out.grad = DOMAIN nll.grad
            /\ \A i \in DOMAIN nll.grad :
                  nll.out.grad[i] = [k |-> "fin", m |-> 0 - (nll.grad[i].m + pg(i)), e |-> 0]

\* C7 witness: a finite evaluation with a prior configured.
C7_Witness ==
    /\ nll.evaluated
    /\ ~C6_NonFinite(nll)
    /\ nll.prior.present
    /\ nll.out.val.m = -3
    /\ Len(nll.out.grad) = 2

\* C8: a train call with do_optimize = false fits with the hyperparameters
\* the kernel had when the model was constructed, whatever calls came before.
C8_DefaultsWithoutOptimize ==
    (~args.do_optimize /\ pc \in {"assign", "fit2", "flag"}) =>
        hypers = kernel_init.theta

\* C9: every component of the model's hyperparameter vector lies within the
\* kernel's log-space bounds for that hyperparameter.
C9_ThetaWithinBounds ==
    /\ \A i \in DOMAIN hypers :
          kernel.bounds[i][1] <= hypers[i] /\ hypers[i] <= kernel.bounds[i][2]
    /\ \A i \in DOMAIN kernel.theta :
          kernel.bounds[i][1] <= kernel.theta[i] /\ kernel.theta[i] <= kernel.bounds[i][2]

\* The order of the steps of one train call.
C10_Order(nrm, opt) ==
    (IF nrm THEN <<"normalize">> ELSE << >>) \o <<"fit1">>
        \o (IF opt THEN <<"optimize">> ELSE << >>) \o <<"assign", "fit2", "trained">>

\* C10: a train call normalises y (if enabled), fits, optimises (if asked to,
\* from the backend's theta after the first fit), assigns theta* to the
\* kernel, fits again on the same (X, normalised y) and only then sets the
\* trained flag; the flag is never raised before the second fit, and every
\* completed call has made the second fit.
C10_TrainOrder ==
    /\ [](outcome # "none" =>
            /\ IsPrefix(steps, C10_Order(normalize_y, args.do_optimize))
            /\ (pc \in {"lbfgs", "nll"}) =>
                  (gp.fitted /\ p0 = gp.theta /\ steps[Len(steps)] = "fit1")
            /\ pc = "fit2" => kernel.theta = hypers
            /\ outcome = "ok" =>
                  /\ steps = C10_Order(normalize_y, args.do_optimize)
                  /\ gp.fitted
                  /\ gp.X = args.X
                  /\ gp.y = (IF normalize_y THEN NormalizeY(args.raw) ELSE args.raw)
                  /\ gp.theta = hypers)
    /\ [][ (is_trained' /\ ~is_trained) =>
             (pc = "flag" /\ steps[Len(steps)] = "fit2" /\ gp.fitted) ]_vars

\* C10 witness: a call with normalisation and optimisation has completed.
C10_Witness ==
    /\ outcome = "ok"
    /\ pc = "idle"
    /\ normalize_y
    /\ args.do_optimize
    /\ Len(steps) = 6
    /\ is_trained

====
